---- MODULE Spec2Model ----
(***************************************************************************)
(* python_package_cleaner: two command-line programs that list installed   *)
(* packages, work out which are not required by another package, and offer *)
(* an interactive uninstall.                                               *)
(*   src/python_package_cleaner.py  the location-aware program ("cleaner") *)
(*   src/main.py                    the minimal program ("main")           *)
(* A behaviour is one run of one of the two programs against one           *)
(* environment (the installed distributions and the dependency tree the    *)
(* external tools report).                                                 *)
(*                                                                         *)
(* Strings the code slices (paths, typed lines, package names) are         *)
(* sequences of one-character strings, so that strip, lower, split and     *)
(* startswith are computed character by character as Python does. JSON     *)
(* objects are functions from key to value, and a Python dict is the       *)
(* sequence of its items in insertion order.                               *)
(***************************************************************************)
EXTENDS Naturals, Sequences, FiniteSets

(* ---------------- bounds ---------------- *)
MaxPkgs == 2        \* installed distributions in one environment
MaxRounds == 2      \* selective rounds with a non-empty selection in one run

(* ---------------- strings ---------------- *)
Whitespace == {" ", "\t"}
Upper == <<"A","B","C","D","E","F","G","H","I","J","K","L","M",
           "N","O","P","Q","R","S","T","U","V","W","X","Y","Z">>
Lower == <<"a","b","c","d","e","f","g","h","i","j","k","l","m",
           "n","o","p","q","r","s","t","u","v","w","x","y","z">>

\* The lower-case letter of each upper-case letter
LowerOf ==
    [ch \in {Upper[i] : i \in 1..Len(Upper)} |->
        Lower[CHOOSE i \in 1..Len(Upper) : Upper[i] = ch]]

\* str.lower() on one character
LowerChar(ch) == IF ch \in DOMAIN LowerOf THEN LowerOf[ch] ELSE ch

\* str.lower()
lower(s) == [i \in 1..Len(s) |-> LowerChar(s[i])]

\* str.strip(): drop the leading and the trailing whitespace
RECURSIVE lstrip(_)
lstrip(s) == IF s # <<>> /\ s[1] \in Whitespace THEN lstrip(Tail(s)) ELSE s

RECURSIVE rstrip(_)
rstrip(s) ==
    IF s # <<>> /\ s[Len(s)] \in Whitespace
    THEN rstrip(SubSeq(s, 1, Len(s) - 1))
    ELSE s

strip(s) == rstrip(lstrip(s))

\* str.split(","): the pieces between the commas; "" splits to [""]
RECURSIVE SplitFrom(_, _)
SplitFrom(s, cur) ==
    IF s = <<>> THEN <<cur>>
    ELSE IF s[1] = "," THEN <<cur>> \o SplitFrom(Tail(s), <<>>)
    ELSE SplitFrom(Tail(s), Append(cur, s[1]))

split(s) == SplitFrom(s, <<>>)

\* str.startswith(prefix)
startswith(s, prefix) ==
    /\ Len(prefix) <= Len(s)
    /\ SubSeq(s, 1, Len(prefix)) = prefix

\* x in list
InList(x, list) == \E i \in 1..Len(list) : list[i] = x

(* ---------------- Python dicts ---------------- *)
\* d.keys(), in insertion order
Keys(d) == [i \in 1..Len(d) |-> d[i].k]

HasKey(d, key) == \E i \in 1..Len(d) : d[i].k = key

\* d[key]
Lookup(d, key) == d[CHOOSE i \in 1..Len(d) : d[i].k = key].v

\* d[key] = value: a new key is appended, an old key keeps its place
DictPut(d, key, value) ==
    IF HasKey(d, key)
    THEN [i \in 1..Len(d) |-> IF d[i].k = key THEN [k |-> key, v |-> value] ELSE d[i]]
    ELSE Append(d, [k |-> key, v |-> value])

\* obj.get(key, default) on a JSON object
Get(obj, key, default) == IF key \in DOMAIN obj THEN obj[key] ELSE default

(* ---------------- names and paths ---------------- *)
a == <<"a">>
b == <<"b">>
c == <<"c">>
d == <<"d">>
z == <<"z">>
pip == <<"p","i","p">>
setuptools == <<"s","e","t","u","p","t","o","o","l","s">>
wheel == <<"w","h","e","e","l">>
pipdeptree == <<"p","i","p","d","e","p","t","r","e","e">>

\* system_dirs and skip_packages of classify_packages
system_dirs ==
    << <<"/","L","i","b","r","a","r","y","/">>,
       <<"/","S","y","s","t","e","m","/">>,
       <<"/","A","p","p","l","i","c","a","t","i","o","n","s","/",
         "X","c","o","d","e",".","a","p","p","/">> >>
skip_packages == {pip, setuptools, wheel, pipdeptree}

(* ---------------- the environment ---------------- *)
\* The distributions an environment may hold, as `pip list --format=json
\* --verbose` prints them, in pip's (alphabetical) order. pip writes the install
\* location under the key "location"; the record of c carries it under the key
\* the code reads, "Location", and the record of d carries none, so that both
\* branches of pkg.get("Location", "") run.
Catalogue ==
    << [name |-> a, version |-> "1.0",
        location |-> <<"/","o","p","t","/","a">>],
       [name |-> b, version |-> "2.0",
        location |-> <<"/","L","i","b","r","a","r","y","/","b">>],
       [name |-> c, version |-> "3.0",
        Location |-> <<"/","S","y","s","t","e","m","/","c">>],
       [name |-> d, version |-> "4.0"],
       [name |-> pip, version |-> "23.0",
        location |-> <<"/","o","p","t","/","p","i","p">>] >>

RECURSIVE Listing(_)
Listing(S) ==
    IF S = {} THEN <<>>
    ELSE LET m == CHOOSE x \in S : \A y \in S : x <= y
         IN <<Catalogue[m]>> \o Listing(S \ {m})

Environments ==
    {Listing(S) : S \in {T \in SUBSET (1..Len(Catalogue)) : Cardinality(T) <= MaxPkgs}}

\* Entries `pipdeptree --json` may print: a package and, usually, the list of
\* its dependencies (here with a name twice, and with a name that is not
\* installed).
entryA == [package |-> [package_name |-> a],
           dependencies |-> << [package_name |-> c], [package_name |-> pip] >>]
entryB == [package |-> [package_name |-> b],
           dependencies |-> << [package_name |-> d], [package_name |-> z],
                               [package_name |-> d] >>]
entryC == [package |-> [package_name |-> c]]
entryD == [package |-> [package_name |-> d],
           dependencies |-> << [package_name |-> a], [package_name |-> b] >>]

\* The dependency trees an environment may report
Trees ==
    { <<>>, <<entryA>>, <<entryB, entryC>>, <<entryA, entryB>>,
      <<entryB, entryA>>, <<entryD>> }

\* What a subprocess run with check=True and a json.loads of its output can come to
Outcomes == {"ok", "nonzero", "invalid_json"}

\* Exit status of a subprocess
ExitStatuses == {0, 1}

\* Lines the user may type at a prompt
Lines ==
    { <<"y">>, <<" ","Y"," ">>, <<"n">>, <<>>,
      <<"1">>, <<" ","2">>,
      <<"q">>, <<" ","Q">>,
      a, <<" ","d"," ",","," ","a"," ">>, <<"c",",","p","i","p">> }

\* What the prompts make of each typed line: input(...).strip(), then .lower()
\* for the y/n and q answers, .split(",") for the names entered
Stripped == [line \in Lines |-> strip(line)]

Answer == [line \in Lines |-> lower(strip(line))]

Pieces == [line \in Lines |-> split(strip(line))]

VARIABLES
    program,            \* which script runs: "cleaner" or "main"
    dists,              \* the distributions pip lists (verbose JSON objects)
    depTree,            \* the JSON pipdeptree prints
    environment,        \* names installed in the real environment now
    pc,                 \* the place the script has reached
    exitCode,           \* <<>> while running, <<status>> once the process ended
    failed,             \* the install or query step that failed, or "none"
    probes, installs,   \* pipdeptree --version runs, pip install pipdeptree runs
    listQueries,        \* pip list runs
    treeQueries,        \* pipdeptree --json runs
    installed_packages, \* dict built from pip list
    classified,         \* dict built by classify_packages (cleaner)
    displayed,          \* package names printed in the table of installed packages
    orphaned,           \* the uninstall candidates (orphaned / orphans)
    selected,           \* the selection of the current selective round
    idx,                \* position of the confirm loop in orphaned / selected
    round,              \* selective rounds begun with a non-empty selection
    prompted,           \* packages whose confirmation was asked in the current loop
    uninstalled,        \* packages passed to uninstall_package, in order
    message             \* the last status message printed

vars == <<program, dists, depTree, environment, pc, exitCode, failed, probes,
          installs, listQueries, treeQueries, installed_packages, classified,
          displayed, orphaned, selected, idx, round, prompted, uninstalled,
          message>>

envVars == <<program, dists, depTree>>
toolVars == <<probes, installs, listQueries, treeQueries>>
dataVars == <<installed_packages, classified, displayed, orphaned>>
loopVars == <<selected, idx, round, prompted>>

Names(listing) == {listing[i].name : i \in 1..Len(listing)}

\* What `pip list --format=json` prints: with --verbose the objects as they are,
\* without it only name and version
PipList(verbose) ==
    IF verbose THEN dists
    ELSE [i \in 1..Len(dists) |-> [key \in {"name", "version"} |-> dists[i][key]]]

Init ==
    /\ program \in {"cleaner", "main"}
    /\ dists \in Environments
    /\ depTree \in Trees
    /\ environment = Names(dists)
    /\ pc = "start"
    /\ exitCode = <<>>
    /\ failed = "none"
    /\ probes = 0 /\ installs = 0 /\ listQueries = 0 /\ treeQueries = 0
    /\ installed_packages = <<>>
    /\ classified = <<>>
    /\ displayed = <<>>
    /\ orphaned = <<>>
    /\ selected = <<>>
    /\ idx = 0
    /\ round = 0
    /\ prompted = <<>>
    /\ uninstalled = <<>>
    /\ message = ""

\* An exception nobody catches: traceback, exit status 1
Raise(step) ==
    /\ pc' = "crashed"
    /\ exitCode' = <<1>>
    /\ failed' = step

\* The script runs off its end (or calls exit()): exit status 0
Exit(msg) ==
    /\ pc' = "done"
    /\ exitCode' = <<0>>
    /\ message' = msg

(* ---------------- python_package_cleaner.py: the pipeline ---------------- *)
\* ensure_pipdeptree with the install run without check=True
ensure_pipdeptree_unchecked ==
    /\ pc = "start"
    /\ probes' = probes + 1
    /\ \E probe \in ExitStatuses, install \in ExitStatuses :
         IF probe = 0
         THEN /\ pc' = "scan"
              /\ UNCHANGED <<installs, exitCode, failed, message>>
         ELSE /\ installs' = installs + 1
              /\ pc' = "scan"
              /\ message' = "pipdeptree installed successfully."
              /\ failed' = IF install = 0 THEN failed ELSE "install"
              /\ UNCHANGED exitCode
    /\ UNCHANGED <<envVars, environment, listQueries, treeQueries, dataVars,
                   loopVars, uninstalled>>

\* ensure_pipdeptree: probe the tool; install it when the probe fails. A failing
\* install raises out of the except block and ends the run.
ensure_pipdeptree ==
    /\ pc = "start"
    /\ probes' = probes + 1
    /\ \E probe \in ExitStatuses, install \in ExitStatuses :
         IF probe = 0
         THEN /\ pc' = "scan"
              /\ UNCHANGED <<installs, exitCode, failed, message>>
         ELSE /\ installs' = installs + 1
              /\ IF install = 0
                 THEN /\ pc' = "scan"
                      /\ message' = "pipdeptree installed successfully."
                      /\ UNCHANGED <<exitCode, failed>>
                 ELSE /\ Raise("install")
                      /\ message' = "pipdeptree not found. Installing..."
    /\ UNCHANGED <<envVars, environment, listQueries, treeQueries, dataVars,
                   loopVars, uninstalled>>

\* The dict comprehension of get_installed_packages over pip's JSON
RECURSIVE InstalledDict(_, _)
InstalledDict(packages, acc) ==
    IF packages = <<>> THEN acc
    ELSE LET pkg == packages[1]
         IN InstalledDict(Tail(packages),
                DictPut(acc, pkg["name"],
                        [version |-> pkg["version"],
                         location |-> Get(pkg, "Location", <<>>)]))

\* get_installed_packages: pip list --format=json --verbose, check=True
get_installed_packages ==
    /\ pc = "scan"
    /\ listQueries' = listQueries + 1
    /\ \E outcome \in Outcomes :
         IF outcome = "ok"
         THEN /\ installed_packages' = InstalledDict(PipList(TRUE), <<>>)
              /\ pc' = "classify"
              /\ UNCHANGED <<exitCode, failed>>
         ELSE /\ Raise("list")
              /\ UNCHANGED installed_packages
    /\ message' = "Scanning installed packages..."
    /\ UNCHANGED <<envVars, environment, probes, installs, treeQueries, classified,
                   displayed, orphaned, loopVars, uninstalled>>

\* RequiredPackages reading only the first dependency of each entry
RequiredPackages_FirstOnly(tree) ==
    UNION { {Get(tree[i], "dependencies", <<>>)[j]["package_name"] :
                j \in 1..(IF Get(tree[i], "dependencies", <<>>) = <<>> THEN 0 ELSE 1)} :
            i \in 1..Len(tree) }

\* The names in some dependencies list of the tree (the loop that fills
\* required_packages)
RequiredPackages(tree) ==
    UNION { {Get(tree[i], "dependencies", <<>>)[j]["package_name"] :
                j \in 1..Len(Get(tree[i], "dependencies", <<>>))} :
            i \in 1..Len(tree) }

\* any(pkg_path.startswith(sd) for sd in system_dirs) or pkg in skip_packages
is_system(pkg, pkg_path) ==
    \/ \E i \in 1..Len(system_dirs) : startswith(pkg_path, system_dirs[i])
    \/ pkg \in skip_packages

\* The conditional expression that sets used_by
used_by(pkg, pkg_path, required_packages) ==
    IF is_system(pkg, pkg_path) THEN "system (do not remove)"
    ELSE IF pkg \notin required_packages THEN "application"
    ELSE "required by another package"

\* The loop of classify_packages over installed_packages.items()
RECURSIVE ClassifyItems(_, _, _)
ClassifyItems(items, required_packages, acc) ==
    IF items = <<>> THEN acc
    ELSE LET pkg == items[1].k
             data == items[1].v
             pkg_path == Get(data, "location", <<>>)
         IN ClassifyItems(Tail(items), required_packages,
                DictPut(acc, pkg,
                        [version |-> data["version"],
                         used_by |-> used_by(pkg, pkg_path, required_packages),
                         system |-> is_system(pkg, pkg_path)]))

Classify(installed, tree) == ClassifyItems(installed, RequiredPackages(tree), <<>>)

\* classify_packages catching the failure of the tree query and going on with
\* an empty tree
classify_packages_ignore_failure ==
    /\ pc = "classify"
    /\ treeQueries' = treeQueries + 1
    /\ \E outcome \in Outcomes :
         IF outcome = "ok"
         THEN /\ classified' = Classify(installed_packages, depTree)
              /\ UNCHANGED failed
         ELSE /\ classified' = Classify(installed_packages, <<>>)
              /\ failed' = "tree"
    /\ pc' = "display"
    /\ UNCHANGED <<envVars, environment, exitCode, probes, installs, listQueries,
                   installed_packages, displayed, orphaned, loopVars, uninstalled,
                   message>>

\* classify_packages, with its call of get_dependency_tree (pipdeptree --json,
\* check=True)
classify_packages ==
    /\ pc = "classify"
    /\ treeQueries' = treeQueries + 1
    /\ \E outcome \in Outcomes :
         IF outcome = "ok"
         THEN /\ classified' = Classify(installed_packages, depTree)
              /\ pc' = "display"
              /\ UNCHANGED <<exitCode, failed>>
         ELSE /\ Raise("tree")
              /\ UNCHANGED classified
    /\ UNCHANGED <<envVars, environment, probes, installs, listQueries,
                   installed_packages, displayed, orphaned, loopVars, uninstalled,
                   message>>

\* display_packages: one table row per item of classified
display_packages ==
    /\ pc = "display"
    /\ displayed' = Keys(classified)
    /\ pc' = "list_orphaned"
    /\ UNCHANGED <<envVars, environment, exitCode, failed, toolVars,
                   installed_packages, classified, orphaned, loopVars, uninstalled,
                   message>>

\* Applications with the test turned into `!= "required by another package"`
RECURSIVE Applications_NotRequired(_)
Applications_NotRequired(items) ==
    IF items = <<>> THEN <<>>
    ELSE IF items[1].v["used_by"] # "required by another package"
         THEN <<items[1].k>> \o Applications_NotRequired(Tail(items))
         ELSE Applications_NotRequired(Tail(items))

\* [pkg for pkg, info in classified.items() if info["used_by"] == "application"]
RECURSIVE Applications(_)
Applications(items) ==
    IF items = <<>> THEN <<>>
    ELSE IF items[1].v["used_by"] = "application"
         THEN <<items[1].k>> \o Applications(Tail(items))
         ELSE Applications(Tail(items))

\* interactive_uninstall up to its first prompt: build and print the orphan list,
\* or return when it is empty
list_orphaned ==
    /\ pc = "list_orphaned"
    /\ orphaned' = Applications(classified)
    /\ IF orphaned' = <<>>
       THEN Exit("No orphaned packages safe to uninstall.")
       ELSE /\ pc' = "ask_any"
            /\ message' = "Orphaned packages safe to uninstall:"
            /\ UNCHANGED exitCode
    /\ UNCHANGED <<envVars, environment, failed, toolVars, installed_packages,
                   classified, displayed, loopVars, uninstalled>>

(* ---------------- python_package_cleaner.py: interactive_uninstall -------- *)
\* [p.strip() for p in pieces if p.strip() in candidates]
RECURSIVE SelectFrom(_, _)
SelectFrom(pieces, candidates) ==
    IF pieces = <<>> THEN <<>>
    ELSE IF InList(strip(pieces[1]), candidates)
         THEN <<strip(pieces[1])>> \o SelectFrom(Tail(pieces), candidates)
         ELSE SelectFrom(Tail(pieces), candidates)

\* uninstall_package: pip uninstall <pkg> -y, exit status not looked at. pip
\* removes the package when it succeeds.
uninstall_package(pkg_name) ==
    /\ uninstalled' = Append(uninstalled, pkg_name)
    /\ \E status \in ExitStatuses :
          environment' = IF status = 0 THEN environment \ {pkg_name} ELSE environment

\* "Do you want to uninstall any of these packages? (y/n)": return unless "y"
answer_uninstall_any(line) ==
    /\ pc = "ask_any"
    /\ IF Answer[line] # <<"y">>
       THEN /\ pc' = "done"
            /\ exitCode' = <<0>>
       ELSE /\ pc' = "ask_mode"
            /\ UNCHANGED exitCode
    /\ UNCHANGED <<envVars, environment, failed, toolVars, dataVars, loopVars,
                   uninstalled>>

ask_uninstall_any(line) == answer_uninstall_any(line) /\ UNCHANGED message

\* "Enter 1 or 2": bulk, selective, or anything else
ask_mode(line) ==
    /\ pc = "ask_mode"
    /\ IF Stripped[line] = <<"1">>
       THEN /\ pc' = "bulk"
            /\ idx' = 1
            /\ prompted' = <<>>
            /\ UNCHANGED <<exitCode, message>>
       ELSE IF Stripped[line] = <<"2">>
       THEN /\ pc' = "enter"
            /\ UNCHANGED <<idx, prompted, exitCode, message>>
       ELSE /\ Exit("Invalid option. Exiting.")
            /\ UNCHANGED <<idx, prompted>>
    /\ UNCHANGED <<envVars, environment, failed, toolVars, dataVars, selected,
                   round, uninstalled>>

\* bulk_confirm leaving the loop when an uninstall fails
bulk_confirm_stop_on_failure(line) ==
    /\ pc = "bulk"
    /\ prompted' = Append(prompted, orphaned[idx])
    /\ \E status \in ExitStatuses :
          /\ IF Answer[line] = <<"y">>
             THEN /\ uninstalled' = Append(uninstalled, orphaned[idx])
                  /\ environment' = IF status = 0
                                    THEN environment \ {orphaned[idx]}
                                    ELSE environment
             ELSE UNCHANGED <<uninstalled, environment>>
          /\ IF idx = Len(orphaned) \/ (Answer[line] = <<"y">> /\ status # 0)
             THEN /\ Exit("Finished uninstalling selected orphaned packages.")
                  /\ UNCHANGED idx
             ELSE /\ idx' = idx + 1
                  /\ UNCHANGED <<pc, exitCode, message>>
    /\ UNCHANGED <<envVars, failed, toolVars, dataVars, selected, round>>

\* One pass of `for pkg in orphaned`: confirm, uninstall on "y"; after the last
\* pass the function returns
bulk_confirm(line) ==
    /\ pc = "bulk"
    /\ LET pkg == orphaned[idx]
       IN /\ prompted' = Append(prompted, pkg)
          /\ IF Answer[line] = <<"y">>
             THEN uninstall_package(pkg)
             ELSE UNCHANGED <<uninstalled, environment>>
    /\ IF idx = Len(orphaned)
       THEN /\ Exit("Finished uninstalling selected orphaned packages.")
            /\ UNCHANGED idx
       ELSE /\ idx' = idx + 1
            /\ UNCHANGED <<pc, exitCode, message>>
    /\ UNCHANGED <<envVars, failed, toolVars, dataVars, selected, round>>

\* enter_names with `break` in place of `continue` on an empty selection
enter_names_break_on_empty(line) ==
    /\ pc = "enter"
    /\ LET pkg_input == Stripped[line]
           selection == SelectFrom(Pieces[line], orphaned)
       IN IF Answer[line] = <<"q">>
          THEN /\ pc' = "done"
               /\ exitCode' = <<0>>
               /\ UNCHANGED <<loopVars, message>>
          ELSE IF selection = <<>>
          THEN /\ Exit("No valid packages selected. Try again.")
               /\ UNCHANGED loopVars
          ELSE /\ round < MaxRounds
               /\ selected' = selection
               /\ idx' = 1
               /\ prompted' = <<>>
               /\ round' = round + 1
               /\ pc' = "confirm"
               /\ UNCHANGED <<exitCode, message>>
    /\ UNCHANGED <<envVars, environment, failed, toolVars, dataVars, uninstalled>>

\* The name-entry prompt of the selective loop: "q" leaves, an empty selection
\* asks again, anything else starts the confirm loop
enter_names(line) ==
    /\ pc = "enter"
    /\ LET pkg_input == Stripped[line]
           selection == SelectFrom(Pieces[line], orphaned)
       IN IF Answer[line] = <<"q">>
          THEN /\ pc' = "done"
               /\ exitCode' = <<0>>
               /\ UNCHANGED <<loopVars, message>>
          ELSE IF selection = <<>>
          THEN /\ message' = "No valid packages selected. Try again."
               /\ UNCHANGED <<pc, exitCode, loopVars>>
          ELSE /\ round < MaxRounds
               /\ selected' = selection
               /\ idx' = 1
               /\ prompted' = <<>>
               /\ round' = round + 1
               /\ pc' = "confirm"
               /\ UNCHANGED <<exitCode, message>>
    /\ UNCHANGED <<envVars, environment, failed, toolVars, dataVars, uninstalled>>

\* selective_confirm uninstalling unless the answer is "n"
selective_confirm_unless_no(line) ==
    /\ pc = "confirm"
    /\ LET pkg == selected[idx]
       IN /\ prompted' = Append(prompted, pkg)
          /\ IF Answer[line] # <<"n">>
             THEN uninstall_package(pkg)
             ELSE UNCHANGED <<uninstalled, environment>>
    /\ IF idx = Len(selected)
       THEN /\ pc' = "more"
            /\ UNCHANGED idx
       ELSE /\ idx' = idx + 1
            /\ UNCHANGED pc
    /\ UNCHANGED <<envVars, exitCode, failed, toolVars, dataVars, selected,
                   round, message>>

\* selective_confirm dropping an uninstalled package from the orphan list
selective_confirm_refresh(line) ==
    /\ pc = "confirm"
    /\ LET pkg == selected[idx]
       IN /\ prompted' = Append(prompted, pkg)
          /\ IF Answer[line] = <<"y">>
             THEN /\ uninstall_package(pkg)
                  /\ orphaned' =
                        [i \in 1..Len(orphaned) - 1 |->
                            IF i < (CHOOSE n \in 1..Len(orphaned) : orphaned[n] = pkg)
                            THEN orphaned[i] ELSE orphaned[i + 1]]
             ELSE UNCHANGED <<uninstalled, environment, orphaned>>
    /\ IF idx = Len(selected)
       THEN /\ pc' = "more"
            /\ UNCHANGED idx
       ELSE /\ idx' = idx + 1
            /\ UNCHANGED pc
    /\ UNCHANGED <<envVars, exitCode, failed, toolVars, installed_packages,
                   classified, displayed, selected, round, message>>

\* One pass of `for pkg in selected`
selective_confirm(line) ==
    /\ pc = "confirm"
    /\ LET pkg == selected[idx]
       IN /\ prompted' = Append(prompted, pkg)
          /\ IF Answer[line] = <<"y">>
             THEN uninstall_package(pkg)
             ELSE UNCHANGED <<uninstalled, environment>>
    /\ IF idx = Len(selected)
       THEN /\ pc' = "more"
            /\ UNCHANGED idx
       ELSE /\ idx' = idx + 1
            /\ UNCHANGED pc
    /\ UNCHANGED <<envVars, exitCode, failed, toolVars, dataVars, selected,
                   round, message>>

\* "Do you want to uninstall more packages? (y/n)"
ask_more(line) ==
    /\ pc = "more"
    /\ IF Answer[line] # <<"y">>
       THEN /\ pc' = "done"
            /\ exitCode' = <<0>>
       ELSE /\ pc' = "enter"
            /\ UNCHANGED exitCode
    /\ UNCHANGED <<envVars, environment, failed, toolVars, dataVars, loopVars,
                   uninstalled, message>>

(* ---------------- main.py ---------------- *)
\* The dict comprehension of main.py's get_installed_packages
RECURSIVE M_InstalledDict(_, _)
M_InstalledDict(packages, acc) ==
    IF packages = <<>> THEN acc
    ELSE M_InstalledDict(Tail(packages),
            DictPut(acc, packages[1]["name"], packages[1]["version"]))

\* The loop of find_orphans that fills required_packages
M_RequiredPackages(tree) ==
    UNION { {Get(tree[i], "dependencies", <<>>)[j]["package_name"] :
                j \in 1..Len(Get(tree[i], "dependencies", <<>>))} :
            i \in 1..Len(tree) }

\* [pkg for pkg in installed_packages if pkg not in required_packages]
RECURSIVE NotRequired(_, _)
NotRequired(keys, required_packages) ==
    IF keys = <<>> THEN <<>>
    ELSE IF keys[1] \notin required_packages
         THEN <<keys[1]>> \o NotRequired(Tail(keys), required_packages)
         ELSE NotRequired(Tail(keys), required_packages)

\* Orphans leaving out the names pip's tooling goes by
Orphans_SkipProtected(installed, tree) ==
    NotRequired(Keys(installed), M_RequiredPackages(tree) \cup skip_packages)

Orphans(installed, tree) == NotRequired(Keys(installed), M_RequiredPackages(tree))

\* find_orphans, with its calls of get_installed_packages (pip list
\* --format=json) and get_dependency_tree (pipdeptree --json), both check=True
find_orphans ==
    /\ pc = "start"
    /\ listQueries' = listQueries + 1
    /\ \E listed \in Outcomes, tree \in Outcomes :
         IF listed # "ok"
         THEN /\ Raise("list")
              /\ UNCHANGED <<treeQueries, installed_packages, orphaned>>
         ELSE /\ treeQueries' = treeQueries + 1
              /\ IF tree # "ok"
                 THEN /\ Raise("tree")
                      /\ UNCHANGED <<installed_packages, orphaned>>
                 ELSE /\ installed_packages' = M_InstalledDict(PipList(FALSE), <<>>)
                      /\ orphaned' = Orphans(installed_packages', depTree)
                      /\ pc' = "display"
                      /\ UNCHANGED <<exitCode, failed>>
    /\ message' = "Scanning installed packages..."
    /\ UNCHANGED <<envVars, environment, probes, installs, classified, displayed,
                   loopVars, uninstalled>>

\* The listing of installed packages and of orphans; the script ends when there
\* is no orphan
M_display ==
    /\ pc = "display"
    /\ displayed' = Keys(installed_packages)
    /\ IF orphaned = <<>>
       THEN Exit("No orphaned packages found.")
       ELSE /\ pc' = "ask_any"
            /\ message' = "Orphaned packages (not required by any other package):"
            /\ UNCHANGED exitCode
    /\ UNCHANGED <<envVars, environment, failed, toolVars, installed_packages,
                   classified, orphaned, loopVars, uninstalled>>

\* main.py's uninstall_package: python3 -m pip uninstall <pkg> -y
M_uninstall_package(pkg_name) ==
    /\ uninstalled' = Append(uninstalled, pkg_name)
    /\ \E status \in ExitStatuses :
          environment' = IF status = 0 THEN environment \ {pkg_name} ELSE environment

\* [p.strip() for p in pkg_input.split(",") if p.strip() in orphans]
RECURSIVE M_SelectFrom(_, _)
M_SelectFrom(pieces, candidates) ==
    IF pieces = <<>> THEN <<>>
    ELSE IF InList(strip(pieces[1]), candidates)
         THEN <<strip(pieces[1])>> \o M_SelectFrom(Tail(pieces), candidates)
         ELSE M_SelectFrom(Tail(pieces), candidates)

\* "Do you want to uninstall any of these packages? (y/n)": exit() unless "y"
M_answer_uninstall_any(line) ==
    /\ pc = "ask_any"
    /\ IF Answer[line] # <<"y">>
       THEN /\ pc' = "done"
            /\ exitCode' = <<0>>
       ELSE /\ pc' = "ask_mode"
            /\ UNCHANGED exitCode
    /\ UNCHANGED <<envVars, environment, failed, toolVars, dataVars, loopVars,
                   uninstalled>>

M_ask_uninstall_any(line) ==
    /\ M_answer_uninstall_any(line)
    /\ message' = IF Answer[line] # <<"y">>
                  THEN "No packages were uninstalled."
                  ELSE message

M_ask_mode(line) ==
    /\ pc = "ask_mode"
    /\ IF Stripped[line] = <<"1">>
       THEN /\ pc' = "bulk"
            /\ idx' = 1
            /\ prompted' = <<>>
            /\ UNCHANGED <<exitCode, message>>
       ELSE IF Stripped[line] = <<"2">>
       THEN /\ pc' = "enter"
            /\ UNCHANGED <<idx, prompted, exitCode, message>>
       ELSE /\ Exit("Invalid option. Exiting.")
            /\ UNCHANGED <<idx, prompted>>
    /\ UNCHANGED <<envVars, environment, failed, toolVars, dataVars, selected,
                   round, uninstalled>>

\* One pass of `for pkg in orphans`
M_bulk_confirm(line) ==
    /\ pc = "bulk"
    /\ LET pkg == orphaned[idx]
       IN /\ prompted' = Append(prompted, pkg)
          /\ IF Answer[line] = <<"y">>
             THEN M_uninstall_package(pkg)
             ELSE UNCHANGED <<uninstalled, environment>>
    /\ IF idx = Len(orphaned)
       THEN /\ Exit("Finished uninstalling selected orphaned packages.")
            /\ UNCHANGED idx
       ELSE /\ idx' = idx + 1
            /\ UNCHANGED <<pc, exitCode, message>>
    /\ UNCHANGED <<envVars, failed, toolVars, dataVars, selected, round>>

M_enter_names(line) ==
    /\ pc = "enter"
    /\ LET pkg_input == Stripped[line]
           selection == M_SelectFrom(Pieces[line], orphaned)
       IN IF Answer[line] = <<"q">>
          THEN /\ pc' = "done"
               /\ exitCode' = <<0>>
               /\ UNCHANGED <<loopVars, message>>
          ELSE IF selection = <<>>
          THEN /\ message' = "No valid packages selected. Try again."
               /\ UNCHANGED <<pc, exitCode, loopVars>>
          ELSE /\ round < MaxRounds
               /\ selected' = selection
               /\ idx' = 1
               /\ prompted' = <<>>
               /\ round' = round + 1
               /\ pc' = "confirm"
               /\ UNCHANGED <<exitCode, message>>
    /\ UNCHANGED <<envVars, environment, failed, toolVars, dataVars, uninstalled>>

\* One pass of `for pkg in selected`
M_selective_confirm(line) ==
    /\ pc = "confirm"
    /\ LET pkg == selected[idx]
       IN /\ prompted' = Append(prompted, pkg)
          /\ IF Answer[line] = <<"y">>
             THEN M_uninstall_package(pkg)
             ELSE UNCHANGED <<uninstalled, environment>>
    /\ IF idx = Len(selected)
       THEN /\ pc' = "more"
            /\ UNCHANGED idx
       ELSE /\ idx' = idx + 1
            /\ UNCHANGED pc
    /\ UNCHANGED <<envVars, exitCode, failed, toolVars, dataVars, selected,
                   round, message>>

M_ask_more(line) ==
    /\ pc = "more"
    /\ IF Answer[line] # <<"y">>
       THEN /\ pc' = "done"
            /\ exitCode' = <<0>>
       ELSE /\ pc' = "enter"
            /\ UNCHANGED exitCode
    /\ UNCHANGED <<envVars, environment, failed, toolVars, dataVars, loopVars,
                   uninstalled, message>>

Next ==
    \/ program = "cleaner" /\ ensure_pipdeptree
    \/ program = "cleaner" /\ get_installed_packages
    \/ program = "cleaner" /\ classify_packages
    \/ program = "cleaner" /\ display_packages
    \/ program = "cleaner" /\ list_orphaned
    \/ program = "cleaner" /\ \E line \in Lines : ask_uninstall_any(line)
    \/ program = "cleaner" /\ \E line \in Lines : ask_mode(line)
    \/ program = "cleaner" /\ \E line \in Lines : bulk_confirm(line)
    \/ program = "cleaner" /\ \E line \in Lines : enter_names(line)
    \/ program = "cleaner" /\ \E line \in Lines : selective_confirm(line)
    \/ program = "cleaner" /\ \E line \in Lines : ask_more(line)
    \/ program = "main" /\ find_orphans
    \/ program = "main" /\ M_display
    \/ program = "main" /\ \E line \in Lines : M_ask_uninstall_any(line)
    \/ program = "main" /\ \E line \in Lines : M_ask_mode(line)
    \/ program = "main" /\ \E line \in Lines : M_bulk_confirm(line)
    \/ program = "main" /\ \E line \in Lines : M_enter_names(line)
    \/ program = "main" /\ \E line \in Lines : M_selective_confirm(line)
    \/ program = "main" /\ \E line \in Lines : M_ask_more(line)

Spec == Init /\ [][Next]_vars

(* ======================= the claims ======================= *)
Range(seq) == {seq[i] : i \in 1..Len(seq)}

\* The protected names and system prefixes as the specification lists them
ProtectedNames == {pip, setuptools, wheel, pipdeptree}
SystemPrefixes ==
    { <<"/","L","i","b","r","a","r","y","/">>,
      <<"/","S","y","s","t","e","m","/">>,
      <<"/","A","p","p","l","i","c","a","t","i","o","n","s","/",
        "X","c","o","d","e",".","a","p","p","/">> }
BeginsWith(s, prefix) == \E n \in 0..Len(s) : SubSeq(s, 1, n) = prefix

\* name is in the dependencies list of some entry of the tree
DependedUpon(name) ==
    \E i \in 1..Len(depTree) :
        /\ "dependencies" \in DOMAIN depTree[i]
        /\ \E j \in 1..Len(depTree[i].dependencies) :
               depTree[i].dependencies[j].package_name = name

\* The typed lines that, trimmed and lower-cased, read "y", and those that read "q"
YesLines == { <<"y">>, <<" ","Y"," ">> }
QuitLines == { <<"q">>, <<" ","Q">> }

PromptPcs == {"ask_any", "ask_mode", "bulk", "enter", "confirm", "more"}
SelectivePcs == {"enter", "confirm", "more"}

\* classify_packages has returned
Classified == program = "cleaner" /\ treeQueries > 0 /\ failed = "none"

\* C1: in python_package_cleaner.py every package listed as an orphan, selected,
\* prompted for confirmation or passed to uninstall_package is classified
\* Application: never System, never a protected name, never required by another.
C1_OnlyApplicationsOffered ==
    program = "cleaner" =>
        \A p \in Range(orphaned) \cup Range(selected) \cup Range(prompted)
                    \cup Range(uninstalled) :
            /\ HasKey(classified, p)
            /\ Lookup(classified, p).used_by = "application"
            /\ Lookup(classified, p).system = FALSE
            /\ p \notin ProtectedNames
            /\ ~DependedUpon(p)

C1_Witness ==
    /\ program = "cleaner"
    /\ uninstalled # <<>>
    /\ \E i \in 1..Len(classified) : classified[i].v.used_by # "application"

\* A confirm step of either program on this line
ConfirmStep(line) ==
    \/ program = "cleaner" /\ bulk_confirm(line)
    \/ program = "cleaner" /\ selective_confirm(line)
    \/ program = "main" /\ M_bulk_confirm(line)
    \/ program = "main" /\ M_selective_confirm(line)

\* C2: in both modes of both programs, a step adds an uninstall invocation only
\* as the confirm step for the package just prompted; a confirm step on an
\* answer that reads "y" once trimmed and lower-cased prompts and uninstalls that
\* package, and a confirm step on any other answer uninstalls nothing.
C2_UninstallOnlyOnYes ==
    [][ /\ uninstalled' # uninstalled =>
              /\ pc \in {"bulk", "confirm"}
              /\ LET pkg == IF pc = "bulk" THEN orphaned[idx] ELSE selected[idx]
                 IN /\ prompted' = Append(prompted, pkg)
                    /\ uninstalled' = Append(uninstalled, pkg)
        /\ pc \in {"bulk", "confirm"} =>
              LET pkg == IF pc = "bulk" THEN orphaned[idx] ELSE selected[idx]
              IN /\ \A line \in Lines \ YesLines :
                       ConfirmStep(line) =>
                           /\ uninstalled' = uninstalled
                           /\ environment' = environment
                 /\ \A line \in YesLines :
                       ConfirmStep(line) =>
                           /\ uninstalled' = Append(uninstalled, pkg)
                           /\ prompted' = Append(prompted, pkg)
      ]_vars

\* Scenario 3: bulk mode over two orphans X and Y ended with one invocation, for X
C2_Witness ==
    /\ message = "Finished uninstalling selected orphaned packages."
    /\ Len(orphaned) = 2
    /\ prompted = orphaned
    /\ uninstalled = <<orphaned[1]>>

\* The install location pip's listing reports for a distribution
ReportedLocation(dist) ==
    IF "location" \in DOMAIN dist THEN dist["location"]
    ELSE IF "Location" \in DOMAIN dist THEN dist["Location"]
    ELSE <<>>

\* C3: every listed package with a protected name, or with a reported install
\* location under a system prefix, is classified System by get_installed_packages
\* -> classify_packages (also when it is depended upon) and is no orphan.
C3_ProtectedIsSystem ==
    (Classified /\ pc # "display") =>
        \A i \in 1..Len(dists) :
            (\/ dists[i].name \in ProtectedNames
             \/ \E prefix \in SystemPrefixes :
                    BeginsWith(ReportedLocation(dists[i]), prefix))
            => /\ HasKey(classified, dists[i].name)
               /\ Lookup(classified, dists[i].name).system = TRUE
               /\ Lookup(classified, dists[i].name).used_by = "system (do not remove)"
               /\ ~InList(dists[i].name, orphaned)

\* Protected, judged on an entry of the installed mapping
ProtectedIn(installed, name) ==
    \/ name \in ProtectedNames
    \/ \E prefix \in SystemPrefixes :
           BeginsWith(Lookup(installed, name).location, prefix)

\* C4: classify_packages is total and exclusive: its keys are the keys of the
\* installed mapping, once each and in order (names only in the tree are absent);
\* each has one category; a protected entry is System, any other is
\* RequiredByOther iff some dependencies list of the tree names it, else
\* Application (so all are Application under an empty tree); the installed
\* mapping is left as it was built.
C4_ClassifyTotalExclusive ==
    Classified =>
        /\ Keys(classified) = Keys(installed_packages)
        /\ Cardinality(Range(Keys(classified))) = Len(classified)
        /\ Range(Keys(classified)) = Names(dists)
        /\ \A i \in 1..Len(classified) :
              LET name == classified[i].k
                  info == classified[i].v
              IN /\ info.used_by \in {"system (do not remove)", "application",
                                      "required by another package"}
                 /\ info.system = (info.used_by = "system (do not remove)")
                 /\ info.version = installed_packages[i].v.version
                 /\ info.system = ProtectedIn(installed_packages, name)
                 /\ ~info.system =>
                       (info.used_by = "required by another package")
                           = DependedUpon(name)
                 /\ (~info.system /\ depTree = <<>>) => info.used_by = "application"
        /\ \A i \in 1..Len(installed_packages) :
              /\ installed_packages[i].k = dists[i].name
              /\ installed_packages[i].v.version = dists[i].version

C4_Witness ==
    /\ Classified
    /\ \E i \in 1..Len(classified) :
           classified[i].v.used_by = "required by another package"
    /\ \E i \in 1..Len(classified) :
           classified[i].v.system /\ classified[i].k \notin ProtectedNames
    /\ \E i \in 1..Len(depTree) : "dependencies" \in DOMAIN depTree[i]
                                  /\ Len(depTree[i].dependencies) > 1

\* No trimmed token of the line is an orphan
NoValidToken(line) ==
    \A i \in 1..Len(split(strip(line))) :
        ~InList(strip(split(strip(line))[i]), orphaned)

EnterStep(line) ==
    \/ program = "cleaner" /\ enter_names(line)
    \/ program = "main" /\ M_enter_names(line)

MoreStep(line) ==
    \/ program = "cleaner" /\ ask_more(line)
    \/ program = "main" /\ M_ask_more(line)

\* C5: at the name-entry prompt "q" ends the run with no further prompt or
\* uninstall; an input with no valid token prints the "no valid packages"
\* message and asks for names again, with no confirmation, no uninstall and no
\* "uninstall more?" question; any other input starts the confirmations. The
\* selective loop is left only from the name-entry prompt or by a non-"y" answer
\* to the continue question, which follows a round with a selection.
C5_SelectiveLoop ==
    [][ /\ pc = "enter" =>
              \A line \in Lines :
                  EnterStep(line) =>
                      IF line \in QuitLines
                      THEN /\ pc' = "done"
                           /\ exitCode' = <<0>>
                           /\ uninstalled' = uninstalled
                           /\ prompted' = prompted
                      ELSE IF NoValidToken(line)
                      THEN /\ pc' = "enter"
                           /\ exitCode' = <<>>
                           /\ message' = "No valid packages selected. Try again."
                           /\ uninstalled' = uninstalled
                           /\ environment' = environment
                           /\ <<selected, idx, round, prompted>>'
                                  = <<selected, idx, round, prompted>>
                      ELSE /\ pc' = "confirm"
                           /\ selected' # <<>>
                           /\ uninstalled' = uninstalled
        /\ pc = "more" =>
              /\ round > 0
              /\ selected # <<>>
              /\ \A line \in Lines :
                    MoreStep(line) =>
                        IF line \in YesLines
                        THEN pc' = "enter" /\ exitCode' = <<>>
                        ELSE pc' = "done" /\ exitCode' = <<0>>
        /\ (pc \in SelectivePcs /\ pc' \notin SelectivePcs) =>
              /\ pc \in {"enter", "more"}
              /\ pc' = "done"
              /\ exitCode' = <<0>>
              /\ uninstalled' = uninstalled
              /\ prompted' = prompted
      ]_vars

C5_Witness ==
    /\ pc = "enter"
    /\ message = "No valid packages selected. Try again."
    /\ round > 0
    /\ exitCode = <<>>

\* C6: when the install of pipdeptree fails the run has ended with a failure and
\* has made no list query, no tree query, no classification, no display, no
\* prompt and no uninstall; and a run whose list query or tree query failed has
\* ended without a prompt or an uninstall.
C6_AbortBeforeLaterSteps ==
    /\ failed = "install" =>
          /\ pc = "crashed" /\ exitCode = <<1>>
          /\ probes = 1 /\ installs = 1
          /\ listQueries = 0 /\ treeQueries = 0
          /\ installed_packages = <<>> /\ classified = <<>>
          /\ displayed = <<>> /\ orphaned = <<>>
          /\ prompted = <<>> /\ uninstalled = <<>>
    /\ failed \in {"list", "tree"} =>
          /\ pc = "crashed" /\ exitCode = <<1>>
          /\ classified = <<>> /\ displayed = <<>>
          /\ prompted = <<>> /\ uninstalled = <<>>
          /\ environment = Names(dists)

C6_Witness == program = "cleaner" /\ failed = "install" /\ pc = "crashed"

\* C7 as first stated: every run of python_package_cleaner.py in which the
\* install step does not fail ends with exit status 0.
C7_ExitZeroUnlessInstallFails ==
    (program = "cleaner" /\ exitCode # <<>> /\ failed # "install")
        => exitCode = <<0>>

\* C7: a run of python_package_cleaner.py ends with exit status 0 exactly when
\* neither the install step nor the list query nor the tree query failed (also
\* when an uninstall failed), and with a non-zero status otherwise.
C7_ExitStatus ==
    (program = "cleaner" /\ exitCode # <<>>) =>
        /\ pc \in {"done", "crashed"}
        /\ (exitCode = <<0>>) = (failed = "none")
        /\ (exitCode # <<0>>) = (failed \in {"install", "list", "tree"})
        /\ (exitCode = <<0>>) = (pc = "done")

\* A run that ended with status 0 although an uninstall it invoked had failed
C7_Witness ==
    /\ program = "cleaner"
    /\ exitCode = <<0>>
    /\ \E i \in 1..Len(uninstalled) : uninstalled[i] \in environment

\* C8: the cleaner queries pip's list and the dependency tree at most once, and
\* has queried each once at every prompt; no step taken from a prompt changes
\* the installed mapping, the classification or the orphan list or queries
\* again; and a listed orphan typed at the name-entry prompt is accepted whether
\* or not it is still installed.
C8_PromptState ==
    program = "cleaner" =>
        /\ listQueries <= 1 /\ treeQueries <= 1
        /\ pc \in PromptPcs =>
              /\ listQueries = 1 /\ treeQueries = 1
              /\ orphaned # <<>>
        /\ (pc = "enter" /\ round < MaxRounds) =>
              \A line \in Lines :
                  InList(line, orphaned) =>
                      ENABLED (/\ enter_names(line)
                               /\ selected' = <<line>>
                               /\ pc' = "confirm")

C8_StateUnchanged ==
    /\ []C8_PromptState
    /\ [][ (program = "cleaner" /\ pc \in PromptPcs) =>
              /\ classified' = classified
              /\ orphaned' = orphaned
              /\ installed_packages' = installed_packages
              /\ displayed' = displayed
              /\ listQueries' = listQueries
              /\ treeQueries' = treeQueries
         ]_vars

\* A package uninstalled with success in round one is confirmed and uninstalled
\* again in round two
C8_Witness ==
    /\ program = "cleaner"
    /\ round = 2
    /\ Len(uninstalled) = 2
    /\ uninstalled[1] = uninstalled[2]
    /\ prompted = <<uninstalled[1]>>
    /\ uninstalled[1] \notin environment
    /\ InList(uninstalled[1], orphaned)

RECURSIVE IsSubseq(_, _)
IsSubseq(s, t) ==
    IF s = <<>> THEN TRUE
    ELSE IF t = <<>> THEN FALSE
    ELSE IF s[1] = t[1] THEN IsSubseq(Tail(s), Tail(t))
    ELSE IsSubseq(s, Tail(t))

BulkStep(line) ==
    \/ program = "cleaner" /\ bulk_confirm(line)
    \/ program = "main" /\ M_bulk_confirm(line)

\* C9: in bulk mode the orphans are prompted one by one in the order they were
\* displayed: the prompts so far are the orphans before the current one, every
\* answer and every uninstall outcome moves on to the next orphan or, after the
\* last, to Done; at Done each orphan was prompted once and uninstalled at most
\* once.
C9_BulkOnePromptEach ==
    /\ IsSubseq(orphaned, displayed) \/ displayed = <<>>
    /\ pc = "bulk" =>
          /\ idx \in 1..Len(orphaned)
          /\ prompted = SubSeq(orphaned, 1, idx - 1)
          /\ IsSubseq(uninstalled, prompted)
          /\ \A line \in Lines :
                /\ ENABLED BulkStep(line)
                /\ ~ENABLED (/\ BulkStep(line)
                             /\ ~(/\ prompted' = Append(prompted, orphaned[idx])
                                  /\ IsSubseq(uninstalled', prompted')
                                  /\ IF idx = Len(orphaned)
                                     THEN pc' = "done" /\ exitCode' = <<0>>
                                     ELSE pc' = "bulk" /\ idx' = idx + 1))
    /\ (pc = "done" /\ message = "Finished uninstalling selected orphaned packages.") =>
          /\ prompted = orphaned
          /\ IsSubseq(uninstalled, orphaned)
          /\ Cardinality(Range(orphaned)) = Len(orphaned)

\* Bulk mode ended after a failed first uninstall and a second one
C9_Witness ==
    /\ program = "cleaner"
    /\ pc = "done"
    /\ message = "Finished uninstalling selected orphaned packages."
    /\ Len(orphaned) = 2
    /\ uninstalled = orphaned
    /\ orphaned[1] \in environment
    /\ orphaned[2] \notin environment

\* seq without the elements of S
RECURSIVE Without(_, _)
Without(seq, S) ==
    IF seq = <<>> THEN <<>>
    ELSE IF seq[1] \in S THEN Without(Tail(seq), S)
    ELSE <<seq[1]>> \o Without(Tail(seq), S)

\* C10: for the same listing and tree, main.py's orphans are the installed names
\* that no dependencies list names, in listing order; the cleaner's candidates
\* are those orphans without the protected entries, so they are equal exactly
\* when no protected entry is outside the required set; and from the same state
\* the two programs take the same step on the same typed line.
C10_Lists ==
    (pc \in PromptPcs \cup {"done"} /\ failed = "none") =>
        LET mapping == InstalledDict(PipList(TRUE), <<>>)
            candidates == IF program = "cleaner" THEN orphaned
                          ELSE Applications(Classify(mapping, depTree))
            orphans == IF program = "main" THEN orphaned
                       ELSE Orphans(M_InstalledDict(PipList(FALSE), <<>>), depTree)
            protected == {p \in Range(Keys(mapping)) : ProtectedIn(mapping, p)}
            required == {p \in Range(Keys(mapping)) : DependedUpon(p)}
        IN /\ orphans = Without(Keys(mapping), required)
           /\ candidates = Without(orphans, protected)
           /\ IsSubseq(candidates, orphans)
           /\ (candidates = orphans) = (protected \subseteq required)

====
